---- MODULE Spec2Model ----
(***************************************************************************)
(* sweetnothings: a flood-broadcast chat node (src/sweetnothings.go).      *)
(*                                                                         *)
(* The model is a closed network of nodes that all run the program.  Each  *)
(* node has the program's globals (peers, seenIds), its input scanner      *)
(* goroutine, its dial goroutines and one serveIncoming goroutine per      *)
(* accepted connection.  A goroutine step is one access to shared state    *)
(* (a map under its mutex, a channel, a connection) together with the      *)
(* local statements around it.  Peers.Add and SeenId are two steps each,   *)
(* the lock with the read and the write with the unlock, so that what the  *)
(* mutex excludes is an interleaving the model could otherwise take.       *)
(*                                                                         *)
(* A link <<n, c>> is the c-th dial goroutine of node n together with the  *)
(* channel it got from peers.Add, the connection it opened and the         *)
(* serveIncoming goroutine the remote accept loop started for it.          *)
(*                                                                         *)
(* uniqueId() formats the wall clock; the model reads a clock that is      *)
(* strictly increasing over the originations, so every origination has     *)
(* its own id.  Body and Timestamp are carried unread by the protocol and  *)
(* are left out of the message record.                                     *)
(***************************************************************************)
EXTENDS Naturals, FiniteSets, Sequences

\* ------------------------------------------------------------------ bounds
NumNodes == 3        \* nodes of the network
MaxChan == 2         \* dial goroutines (links) a node has at one time
MaxMsgs == 1         \* originations (lines typed) in the whole network
MaxDialCmds == 3     \* /dial commands typed in the whole network
MaxFaults == 1       \* spontaneous transport / decode failures

Node == 1..NumNodes
Addr == Node
Chan == 1..MaxChan
Link == Node \X Chan
Id == 1..MaxMsgs

NoAddr == 0
NoChan == 0

\* type SweetNothing struct {ID, Addr, ...}
SweetNothing(id, addr) == [ID |-> id, Addr |-> addr]
NoMsg == SweetNothing(0, NoAddr)

\* localInfo.Addr(): the node's own host:port
LocalAddr(n) == n

VARIABLES
    channels,   \* peers.channels of each node: Addr -> Chan, NoChan when absent
    peersMu,    \* peers.mu of each node is write-locked (inside Peers.Add)
    seenIds,    \* seenIds.m of each node: the ids mapped to true
    seenMu,     \* seenIds.Mutex of each node is locked (inside SeenId)
    scanner,    \* startInputScanner goroutine of each node
    dialer,     \* dial goroutine of each link
    wire,       \* messages encoded on the link's connection and not yet read
    server,     \* serveIncoming goroutine of each link (runs at the dialled node)
    clock,      \* wall clock read by uniqueId: originations so far
    cmds,       \* /dial commands typed so far
    faults,     \* spontaneous failures so far
    listener,   \* main's accept loop of each node: "accepting"; "nilconn" when
                \* Accept has returned an error and serveIncoming was started
                \* on the nil connection; "down" when the process has ended
    bcasts,     \* history: calls of broadcast per node and id
    shown,      \* history: lines printed by serveIncoming per node and id
    retFalse,   \* history: SeenId calls that returned false per node and id
    retTrue,    \* history: SeenId calls that returned true per node and id
    written,    \* history: messages encoded on the link's current connection
    redials,    \* history: how the dial(own address) calls that returned at
                \* the guard were started: "cmd" (/dial) or "msg" (serveIncoming)
    decoded,    \* history: messages each node has decoded from a connection
    stamps,     \* history: for every message of wire, its position among the
                \* messages the dial goroutine has encoded on the connection
    got,        \* history: the positions of the messages serveIncoming has
                \* decoded from the link's connection, in the order decoded
    failed      \* history: <<node, addr>> of the dial goroutines whose
                \* net.Dial failed and that have returned

vars == <<channels, peersMu, seenIds, seenMu, scanner, dialer, wire, server,
          clock, cmds, faults, listener, bcasts, shown, retFalse, retTrue,
          written, redials, decoded, stamps, got, failed>>

hist == <<bcasts, shown, retFalse, retTrue, written, redials, decoded,
          stamps, got, failed>>

\* ------------------------------------------------------------ initial state
FreeDialer == [pc |-> "free", addr |-> NoAddr, ok |-> FALSE, s |-> NoMsg,
               by |-> "none"]
\* todo and dropped belong to the broadcast call in progress: the channels
\* of its snapshot not yet tried, and (history) those whose send took the
\* default branch
NoServer == [pc |-> "none", whisper |-> NoMsg, ok |-> FALSE, todo |-> {},
             dropped |-> {}]
IdleScanner == [pc |-> "scan", whisper |-> NoMsg, todo |-> {}, dropped |-> {}]

Init ==
    /\ channels = [n \in Node |-> [a \in Addr |-> NoChan]]
    /\ peersMu = [n \in Node |-> FALSE]
    /\ seenIds = [n \in Node |-> {}]
    /\ seenMu = [n \in Node |-> FALSE]
    /\ scanner = [n \in Node |-> IdleScanner]
    /\ dialer = [l \in Link |-> FreeDialer]
    /\ wire = [l \in Link |-> <<>>]
    /\ server = [l \in Link |-> NoServer]
    /\ clock = 0
    /\ cmds = 0
    /\ faults = 0
    /\ listener = [n \in Node |-> "accepting"]
    /\ bcasts = [n \in Node |-> [i \in Id |-> 0]]
    /\ shown = [n \in Node |-> [i \in Id |-> 0]]
    /\ retFalse = [n \in Node |-> [i \in Id |-> 0]]
    /\ retTrue = [n \in Node |-> [i \in Id |-> 0]]
    /\ written = [l \in Link |-> 0]
    /\ redials = [n \in Node |-> {}]
    /\ decoded = [n \in Node |-> {}]
    /\ stamps = [l \in Link |-> <<>>]
    /\ got = [l \in Link |-> <<>>]
    /\ failed = {}

\* ------------------------------------------------------- the program's data
\* uniqueId(): the formatted wall clock
uniqueId(now) == now

\* Peers.Add line 68: _, ok := p.channels[addr]
PeersHas(n, addr) == channels[n][addr] # NoChan

\* Peers.List: the send handles of every registered peer, copied out
PeersList(n) == {channels[n][a] : a \in Addr} \ {NoChan}

\* Peers.Add lines 71-72: insert the new channel under addr
PeersInsert(n, addr, c) == [channels EXCEPT ![n][addr] = c]

\* a Remove that deletes nothing
PeersDeleteNothing(n, addr) == channels

\* Peers.Remove: delete(p.channels, addr)
PeersDelete(n, addr) == [channels EXCEPT ![n][addr] = NoChan]

\* a registry without its lock
PeersNoLock(n) == TRUE

\* p.mu.Lock() / p.mu.RLock() can be taken: no writer holds the lock
PeersLockFree(n) == ~peersMu[n]

\* a dedup cache without its lock
SeenNoLock(n) == TRUE

\* seenIds.Lock() can be taken
SeenLockFree(n) == ~seenMu[n]

\* a SeenId that reports every id as new
SeenReadNever(n, id) == FALSE

\* SeenId line 130: ok := seenIds.m[id]
SeenRead(n, id) == id \in seenIds[n]

\* SeenId line 131: seenIds.m[id] = true
SeenMark(n, id) == [seenIds EXCEPT ![n] = @ \cup {id}]

\* a dial without the guard on the own address
IsSelfNever(n, addr) == FALSE

\* dial line 201: addr == localInfo.Addr()
IsSelf(n, addr) == addr = LocalAddr(n)

\* the process of node n is running
Up(n) == listener[n] # "down"

\* the node a link's connection leads to, where its serveIncoming runs
At(l) == dialer[l].addr

\* dial line 227: the goroutine is blocked in `for s := range ch`
Receiving(l) == dialer[l].pc = "recv"

\* the remote end has closed the connection (serveIncoming line 186)
RemoteClosed(l) == server[l].pc = "closed"

\* the dial goroutine has closed the connection (dial line 222)
LocalClosed(l) == dialer[l].pc \in {"closed", "done"}

\* a channel handle is still held by a broadcast in progress at node n
Referenced(n, c) ==
    \/ c \in scanner[n].todo
    \/ \E l \in Link : At(l) = n /\ c \in server[l].todo

\* `go dial(addr)` and make(chan SweetNothing): a goroutine and a channel
\* that nothing else uses
FreeSlots(n) == {c \in Chan : dialer[<<n, c>>].pc = "free" /\ ~Referenced(n, c)}

NewSlot(n) == CHOOSE c \in FreeSlots(n) : \A d \in FreeSlots(n) : c <= d

GoDial(n, addr, by) ==
    [dialer EXCEPT ![<<n, NewSlot(n)>>] =
        [pc |-> "start", addr |-> addr, ok |-> FALSE, s |-> NoMsg, by |-> by]]

\* a dial that does not keep its writes in order: the new message gets
\* on the connection ahead of what is still unread there
EnqueueFront(q, x) == <<x>> \o q

\* dial lines 226-228: one goroutine encodes the messages one after the
\* other on one connection, which delivers them in the order written
Enqueue(q, x) == Append(q, x)

Bump(h, n, id) == [h EXCEPT ![n][id] = @ + 1]

\* a send without the default branch: it waits for the receiver
BlockingSend(l, w) ==
    /\ Receiving(l)
    /\ dialer' = [dialer EXCEPT ![l].pc = "encode", ![l].s = w]

\* a channel made with room for one message: a send to a dial goroutine
\* that is not receiving leaves the message in the channel
BufferedSend(l, w) ==
    \/ /\ Receiving(l)
       /\ dialer' = [dialer EXCEPT ![l].pc = "encode", ![l].s = w]
    \/ /\ ~Receiving(l)
       /\ dialer' = [dialer EXCEPT ![l].s = IF @ = NoMsg THEN w ELSE @]

\* broadcast lines 192-196: select { case ch <- whisper: default: }
\* The channel is unbuffered: the send goes through only to a goroutine
\* that is blocked receiving.
SelectSend(l, w) ==
    \/ /\ Receiving(l)
       /\ dialer' = [dialer EXCEPT ![l].pc = "encode", ![l].s = w]
    \/ /\ ~Receiving(l)
       /\ UNCHANGED dialer

\* broadcast line 195: the default branch is taken for the channel of link
\* l; d are the channels for which the broadcast has taken it before
Dropped(d, l) == IF Receiving(l) THEN d ELSE d \cup {l[2]}

\* ------------------------------------------------- startInputScanner (248)
\* line 259: a line of text becomes a SweetNothing; line 260 calls broadcast
Submit(n) ==
    /\ Up(n)
    /\ scanner[n].pc = "scan"
    /\ clock < MaxMsgs
    /\ clock' = clock + 1
    /\ scanner' = [scanner EXCEPT ![n].pc = "list",
                       ![n].whisper = SweetNothing(uniqueId(clock'), LocalAddr(n))]
    /\ bcasts' = Bump(bcasts, n, uniqueId(clock'))
    /\ UNCHANGED <<listener,
                   channels, peersMu, seenIds, seenMu, dialer, wire, server,
                   cmds, faults, shown, retFalse, retTrue, written, redials,
                   decoded, stamps, got, failed>>

\* handleCommand line 240: /dial addr
DialCmd(n, addr) ==
    /\ Up(n)
    /\ scanner[n].pc = "scan"
    /\ cmds < MaxDialCmds
    /\ FreeSlots(n) # {}
    /\ cmds' = cmds + 1
    /\ dialer' = GoDial(n, addr, "cmd")
    /\ UNCHANGED <<listener,
                   channels, peersMu, seenIds, seenMu, scanner, wire, server,
                   clock, faults, hist>>

\* broadcast line 191: peers.List()
ScanList(n) ==
    /\ scanner[n].pc = "list"
    /\ PeersLockFree(n)
    /\ scanner' = [scanner EXCEPT ![n] =
            IF PeersList(n) = {} THEN IdleScanner
            ELSE [@ EXCEPT !.pc = "send", !.todo = PeersList(n)]]
    /\ UNCHANGED <<listener,
                   channels, peersMu, seenIds, seenMu, dialer, wire, server,
                   clock, cmds, faults, hist>>

\* a broadcast that gives up its loop at the first send that is not taken
ScanSendBreakOnDrop(n, c) ==
    /\ scanner[n].pc = "send"
    /\ c \in scanner[n].todo
    /\ SelectSend(<<n, c>>, scanner[n].whisper)
    /\ scanner' = [scanner EXCEPT ![n] =
            IF @.todo = {c} \/ ~Receiving(<<n, c>>) THEN IdleScanner
            ELSE [@ EXCEPT !.todo = @ \ {c}]]
    /\ UNCHANGED <<listener,
                   channels, peersMu, seenIds, seenMu, wire, server,
                   clock, cmds, faults, hist>>

\* broadcast lines 191-197: one iteration of the loop over the snapshot
ScanSend(n, c) ==
    /\ scanner[n].pc = "send"
    /\ c \in scanner[n].todo
    /\ SelectSend(<<n, c>>, scanner[n].whisper)
    /\ scanner' = [scanner EXCEPT ![n] =
            IF @.todo = {c} THEN IdleScanner
            ELSE [@ EXCEPT !.todo = @ \ {c}, !.dropped = Dropped(@, <<n, c>>)]]
    /\ UNCHANGED <<listener,
                   channels, peersMu, seenIds, seenMu, wire, server,
                   clock, cmds, faults, hist>>

\* ------------------------------------------------------------- dial (200)
\* a goroutine and its connection are gone: the slot can be used again
Retire(l) ==
    /\ dialer' = [dialer EXCEPT ![l] = FreeDialer]
    /\ server' = [server EXCEPT ![l] = NoServer]
    /\ wire' = [wire EXCEPT ![l] = <<>>]
    /\ written' = [written EXCEPT ![l] = 0]
    /\ stamps' = [stamps EXCEPT ![l] = <<>>]
    /\ got' = [got EXCEPT ![l] = <<>>]

\* lines 201-203: if addr == localInfo.Addr() { return }
DialSelf(l) ==
    /\ dialer[l].pc = "start"
    /\ IsSelf(l[1], dialer[l].addr)
    /\ dialer' = [dialer EXCEPT ![l] = FreeDialer]
    /\ redials' = [redials EXCEPT ![l[1]] = @ \cup {dialer[l].by}]
    /\ UNCHANGED <<listener,
                   channels, peersMu, seenIds, seenMu, scanner, wire, server,
                   clock, cmds, faults, bcasts, shown, retFalse, retTrue, written,
                   decoded, stamps, got, failed>>

\* line 205, Peers.Add lines 66-68: Lock, then look addr up
AddEnter(l) ==
    /\ dialer[l].pc = "start"
    /\ ~IsSelf(l[1], dialer[l].addr)
    /\ PeersLockFree(l[1])
    /\ peersMu' = [peersMu EXCEPT ![l[1]] = TRUE]
    /\ dialer' = [dialer EXCEPT ![l].pc = "add_cs",
                                ![l].ok = PeersHas(l[1], dialer[l].addr)]
    /\ UNCHANGED <<listener,
                   channels, seenIds, seenMu, scanner, wire, server,
                   clock, cmds, faults, hist>>

\* a dial whose deferred Remove is registered before the nil check
AddLeaveRemoveOnNil(l) ==
    /\ dialer[l].pc = "add_cs"
    /\ peersMu' = [peersMu EXCEPT ![l[1]] = FALSE]
    /\ IF dialer[l].ok
          THEN /\ dialer' = [dialer EXCEPT ![l] = FreeDialer]
               /\ channels' = PeersDelete(l[1], dialer[l].addr)
          ELSE /\ dialer' = [dialer EXCEPT ![l].pc = "dialing"]
               /\ channels' = PeersInsert(l[1], dialer[l].addr, l[2])
    /\ UNCHANGED <<listener,
                   seenIds, seenMu, scanner, wire, server,
                   clock, cmds, faults, hist>>

\* Peers.Add lines 68-73 and dial lines 206-208: return nil, or insert a new
\* channel and return it; Unlock.  dial returns when it got nil.
AddLeave(l) ==
    /\ dialer[l].pc = "add_cs"
    /\ peersMu' = [peersMu EXCEPT ![l[1]] = FALSE]
    /\ IF dialer[l].ok
          THEN /\ dialer' = [dialer EXCEPT ![l] = FreeDialer]
               /\ UNCHANGED channels
          ELSE /\ dialer' = [dialer EXCEPT ![l].pc = "dialing"]
               /\ channels' = PeersInsert(l[1], dialer[l].addr, l[2])
    /\ UNCHANGED <<listener,
                   seenIds, seenMu, scanner, wire, server,
                   clock, cmds, faults, hist>>

\* an accept loop that dials back the address a connection came from
DialOKDialBack(l) ==
    /\ dialer[l].pc = "dialing"
    /\ Up(At(l))
    /\ dialer' = IF FreeSlots(At(l)) = {}
                    THEN [dialer EXCEPT ![l].pc = "recv"]
                    ELSE [GoDial(At(l), l[1], "accept") EXCEPT ![l].pc = "recv"]
    /\ server' = [server EXCEPT ![l].pc = "decode"]
    /\ UNCHANGED <<listener,
                   channels, peersMu, seenIds, seenMu, scanner, wire,
                   clock, cmds, faults, hist>>

\* lines 213-219: net.Dial returns the connection.  At the remote node,
\* whose process is running, l.Accept() returns its other end and main
\* starts serveIncoming on it (lines 293-297); that goroutine's first step
\* is its first Decode.
DialOK(l) ==
    /\ dialer[l].pc = "dialing"
    /\ Up(At(l))
    /\ dialer' = [dialer EXCEPT ![l].pc = "recv"]
    /\ server' = [server EXCEPT ![l].pc = "decode"]
    /\ UNCHANGED <<listener,
                   channels, peersMu, seenIds, seenMu, scanner, wire,
                   clock, cmds, faults, hist>>

\* lines 213-217: net.Dial fails; log and return
DialFail(l) ==
    /\ dialer[l].pc = "dialing"
    /\ faults < MaxFaults
    /\ faults' = faults + 1
    /\ dialer' = [dialer EXCEPT ![l].pc = "failed"]
    /\ UNCHANGED <<listener,
                   channels, peersMu, seenIds, seenMu, scanner, wire, server,
                   clock, cmds, hist>>

\* lines 227-228: enc.Encode(s) writes the message on the connection
EncodeOK(l) ==
    /\ dialer[l].pc = "encode"
    /\ wire' = [wire EXCEPT ![l] =
                  IF RemoteClosed(l) THEN @ ELSE Enqueue(@, dialer[l].s)]
    /\ stamps' = [stamps EXCEPT ![l] =
                  IF RemoteClosed(l) THEN @ ELSE Enqueue(@, written[l] + 1)]
    /\ written' = [written EXCEPT ![l] = @ + 1]
    /\ dialer' = [dialer EXCEPT ![l].pc = "recv", ![l].s = NoMsg]
    /\ UNCHANGED <<listener,
                   channels, peersMu, seenIds, seenMu, scanner, server,
                   clock, cmds, faults, bcasts, shown, retFalse, retTrue, redials,
                   decoded, got, failed>>

\* lines 229-232 and 221-224: enc.Encode fails; return, which runs the
\* deferred c.Close()
EncodeFail(l) ==
    /\ dialer[l].pc = "encode"
    /\ \/ RemoteClosed(l) /\ UNCHANGED faults
       \/ faults < MaxFaults /\ faults' = faults + 1
    /\ dialer' = [dialer EXCEPT ![l].pc = "closed", ![l].s = NoMsg]
    /\ UNCHANGED <<listener,
                   channels, peersMu, seenIds, seenMu, scanner, wire, server,
                   clock, cmds, hist>>

\* a dial whose deferred Remove is registered only after net.Dial succeeded
RemoveOnlyAfterConnect(l) ==
    /\ dialer[l].pc \in {"failed", "closed"}
    /\ PeersLockFree(l[1])
    /\ channels' = IF dialer[l].pc = "closed"
                      THEN PeersDelete(l[1], dialer[l].addr) ELSE channels
    /\ IF server[l].pc \in {"none", "closed"}
          THEN Retire(l)
          ELSE /\ dialer' = [dialer EXCEPT ![l].pc = "done"]
               /\ UNCHANGED <<wire, server, written, stamps, got>>
    /\ failed' = IF dialer[l].pc = "failed"
                    THEN failed \cup {<<l[1], dialer[l].addr>>} ELSE failed
    /\ UNCHANGED <<listener,
                   peersMu, seenIds, seenMu, scanner, clock, cmds, faults,
                   bcasts, shown, retFalse, retTrue, redials, decoded>>

\* line 209: the deferred peers.Remove(addr), last of the deferred calls
Remove(l) ==
    /\ dialer[l].pc \in {"failed", "closed"}
    /\ PeersLockFree(l[1])
    /\ channels' = PeersDelete(l[1], dialer[l].addr)
    /\ IF server[l].pc \in {"none", "closed"}
          THEN Retire(l)
          ELSE /\ dialer' = [dialer EXCEPT ![l].pc = "done"]
               /\ UNCHANGED <<wire, server, written, stamps, got>>
    /\ failed' = IF dialer[l].pc = "failed"
                    THEN failed \cup {<<l[1], dialer[l].addr>>} ELSE failed
    /\ UNCHANGED <<listener,
                   peersMu, seenIds, seenMu, scanner, clock, cmds, faults,
                   bcasts, shown, retFalse, retTrue, redials, decoded>>

\* ---------------------------------------------------- serveIncoming (170)
\* lines 173-174: a new json.Decoder reads what has arrived on the
\* connection, k messages, and decodes the first; the decoder and what it
\* buffered beyond that message are dropped at the next iteration.
Decode(l, k) ==
    /\ server[l].pc = "decode"
    /\ k \in 1..Len(wire[l])
    /\ server' = [server EXCEPT ![l].pc = "seen", ![l].whisper = Head(wire[l])]
    /\ wire' = [wire EXCEPT ![l] = SubSeq(@, k + 1, Len(@))]
    /\ decoded' = [decoded EXCEPT ![At(l)] = @ \cup {Head(wire[l])}]
    /\ stamps' = [stamps EXCEPT ![l] = SubSeq(@, k + 1, Len(@))]
    /\ got' = [got EXCEPT ![l] = Append(@, Head(stamps[l]))]
    /\ UNCHANGED <<listener,
                   channels, peersMu, seenIds, seenMu, scanner, dialer,
                   clock, cmds, faults, bcasts, shown, retFalse, retTrue,
                   written, redials, failed>>

\* a serveIncoming that on a decode error also drops the registry entry of
\* the peer the connection came from
DecodeErrRemovesPeer(l) ==
    /\ server[l].pc = "decode"
    /\ \/ LocalClosed(l) /\ wire[l] = <<>> /\ UNCHANGED faults
       \/ faults < MaxFaults /\ faults' = faults + 1
    /\ IF dialer[l].pc = "done"
          THEN Retire(l)
          ELSE /\ server' = [server EXCEPT ![l] = [NoServer EXCEPT !.pc = "closed"]]
               /\ wire' = [wire EXCEPT ![l] = <<>>]
               /\ stamps' = [stamps EXCEPT ![l] = <<>>]
               /\ UNCHANGED <<dialer, written, got>>
    /\ channels' = PeersDelete(At(l), l[1])
    /\ UNCHANGED <<listener,
                   peersMu, seenIds, seenMu, scanner, clock, cmds,
                   bcasts, shown, retFalse, retTrue, redials, decoded, failed>>

\* lines 175-177 and 186: Decode fails (end of stream after the peer closed,
\* or a malformed message); break and c.Close()
DecodeErr(l) ==
    /\ server[l].pc = "decode"
    /\ \/ LocalClosed(l) /\ wire[l] = <<>> /\ UNCHANGED faults
       \/ faults < MaxFaults /\ faults' = faults + 1
    /\ IF dialer[l].pc = "done"
          THEN Retire(l)
          ELSE /\ server' = [server EXCEPT ![l] = [NoServer EXCEPT !.pc = "closed"]]
               /\ wire' = [wire EXCEPT ![l] = <<>>]
               /\ stamps' = [stamps EXCEPT ![l] = <<>>]
               /\ UNCHANGED <<dialer, written, got>>
    /\ UNCHANGED <<listener,
                   channels, peersMu, seenIds, seenMu, scanner, clock, cmds,
                   bcasts, shown, retFalse, retTrue, redials, decoded, failed>>

\* line 179, SeenId lines 129-130: Lock, then read the entry
SeenEnter(l) ==
    /\ server[l].pc = "seen"
    /\ SeenLockFree(At(l))
    /\ seenMu' = [seenMu EXCEPT ![At(l)] = TRUE]
    /\ server' = [server EXCEPT ![l].pc = "seen_cs",
                                ![l].ok = SeenRead(At(l), server[l].whisper.ID)]
    /\ UNCHANGED <<listener,
                   channels, peersMu, seenIds, scanner, dialer, wire,
                   clock, cmds, faults, hist>>

\* a serveIncoming without the `continue`: a message whose id had been seen
\* goes through the print, the broadcast and the re-dial as well
SeenLeaveNoContinue(l) ==
    /\ server[l].pc = "seen_cs"
    /\ seenIds' = SeenMark(At(l), server[l].whisper.ID)
    /\ seenMu' = [seenMu EXCEPT ![At(l)] = FALSE]
    /\ server' = [server EXCEPT ![l].pc = "print", ![l].ok = FALSE]
    /\ IF server[l].ok
          THEN /\ retTrue' = Bump(retTrue, At(l), server[l].whisper.ID)
               /\ UNCHANGED retFalse
          ELSE /\ retFalse' = Bump(retFalse, At(l), server[l].whisper.ID)
               /\ UNCHANGED retTrue
    /\ UNCHANGED <<listener,
                   channels, peersMu, scanner, dialer, wire,
                   clock, cmds, faults, bcasts, shown, written, redials,
                   decoded, stamps, got, failed>>

\* a SeenId that returns without Unlock
SeenLeaveNoUnlock(l) ==
    /\ server[l].pc = "seen_cs"
    /\ seenIds' = SeenMark(At(l), server[l].whisper.ID)
    /\ IF server[l].ok
          THEN /\ server' = [server EXCEPT ![l] = [NoServer EXCEPT !.pc = "decode"]]
               /\ retTrue' = Bump(retTrue, At(l), server[l].whisper.ID)
               /\ UNCHANGED retFalse
          ELSE /\ server' = [server EXCEPT ![l].pc = "print", ![l].ok = FALSE]
               /\ retFalse' = Bump(retFalse, At(l), server[l].whisper.ID)
               /\ UNCHANGED retTrue
    /\ UNCHANGED <<listener, seenMu,
                   channels, peersMu, scanner, dialer, wire,
                   clock, cmds, faults, bcasts, shown, written, redials,
                   decoded, stamps, got, failed>>

\* SeenId lines 131-133 and serveIncoming lines 179-181: mark, Unlock,
\* return ok; `continue` when the id had been seen
SeenLeave(l) ==
    /\ server[l].pc = "seen_cs"
    /\ seenIds' = SeenMark(At(l), server[l].whisper.ID)
    /\ seenMu' = [seenMu EXCEPT ![At(l)] = FALSE]
    /\ IF server[l].ok
          THEN /\ server' = [server EXCEPT ![l] = [NoServer EXCEPT !.pc = "decode"]]
               /\ retTrue' = Bump(retTrue, At(l), server[l].whisper.ID)
               /\ UNCHANGED retFalse
          ELSE /\ server' = [server EXCEPT ![l].pc = "print", ![l].ok = FALSE]
               /\ retFalse' = Bump(retFalse, At(l), server[l].whisper.ID)
               /\ UNCHANGED retTrue
    /\ UNCHANGED <<listener,
                   channels, peersMu, scanner, dialer, wire,
                   clock, cmds, faults, bcasts, shown, written, redials,
                   decoded, stamps, got, failed>>

\* lines 182-183: print the message, then call broadcast(whisper)
Display(l) ==
    /\ server[l].pc = "print"
    /\ shown' = Bump(shown, At(l), server[l].whisper.ID)
    /\ bcasts' = Bump(bcasts, At(l), server[l].whisper.ID)
    /\ server' = [server EXCEPT ![l].pc = "list"]
    /\ UNCHANGED <<listener,
                   channels, peersMu, seenIds, seenMu, scanner, dialer, wire,
                   clock, cmds, faults, retFalse, retTrue, written, redials,
                   decoded, stamps, got, failed>>

\* broadcast line 191: peers.List()
ServeList(l) ==
    /\ server[l].pc = "list"
    /\ PeersLockFree(At(l))
    /\ server' = [server EXCEPT ![l] =
            IF PeersList(At(l)) = {} THEN [@ EXCEPT !.pc = "godial"]
            ELSE [@ EXCEPT !.pc = "send", !.todo = PeersList(At(l))]]
    /\ UNCHANGED <<listener,
                   channels, peersMu, seenIds, seenMu, scanner, dialer, wire,
                   clock, cmds, faults, hist>>

\* broadcast lines 191-197: one iteration of the loop over the snapshot
ServeSend(l, c) ==
    /\ server[l].pc = "send"
    /\ c \in server[l].todo
    /\ SelectSend(<<At(l), c>>, server[l].whisper)
    /\ server' = [server EXCEPT ![l] =
            IF @.todo = {c}
               THEN [@ EXCEPT !.pc = "godial", !.todo = {}, !.dropped = {}]
               ELSE [@ EXCEPT !.todo = @ \ {c},
                              !.dropped = Dropped(@, <<At(l), c>>)]]
    /\ UNCHANGED <<listener,
                   channels, peersMu, seenIds, seenMu, scanner, wire,
                   clock, cmds, faults, hist>>

\* a serveIncoming that dials the peer its connection came from instead of
\* the origin of the message
ServeDialTransport(l) ==
    /\ server[l].pc = "godial"
    /\ FreeSlots(At(l)) # {}
    /\ dialer' = GoDial(At(l), l[1], "msg")
    /\ server' = [server EXCEPT ![l] = [NoServer EXCEPT !.pc = "decode"]]
    /\ UNCHANGED <<listener,
                   channels, peersMu, seenIds, seenMu, scanner, wire,
                   clock, cmds, faults, hist>>

\* line 184: go dial(whisper.Addr); back to the top of the loop
ServeDial(l) ==
    /\ server[l].pc = "godial"
    /\ FreeSlots(At(l)) # {}
    /\ dialer' = GoDial(At(l), server[l].whisper.Addr, "msg")
    /\ server' = [server EXCEPT ![l] = [NoServer EXCEPT !.pc = "decode"]]
    /\ UNCHANGED <<listener,
                   channels, peersMu, seenIds, seenMu, scanner, wire,
                   clock, cmds, faults, hist>>

\* ------------------------------------------------------------- main (268)
\* lines 293-297: l.Accept() returns an error; main logs it with
\* log.Println, does not return, and runs `go serveIncoming(con)` with the
\* nil connection of the failed accept
AcceptErr(n) ==
    /\ listener[n] = "accepting"
    /\ faults < MaxFaults
    /\ faults' = faults + 1
    /\ listener' = [listener EXCEPT ![n] = "nilconn"]
    /\ UNCHANGED <<channels, peersMu, seenIds, seenMu, scanner, dialer, wire,
                   server, clock, cmds, hist>>

\* what the end of the process of node n leaves of link l: the operating
\* system closes the connections of the process, its goroutines are gone
DialerAfterExit(n, l) ==
    IF l[1] # n THEN dialer[l]
    ELSE IF server[l].pc \in {"none", "closed"} THEN FreeDialer
    ELSE [dialer[l] EXCEPT !.pc = "done", !.s = NoMsg]

ServerAfterExit(n, l) ==
    IF l[1] = n
       THEN IF server[l].pc \in {"none", "closed"} THEN NoServer ELSE server[l]
    ELSE IF dialer[l].addr # n \/ server[l].pc = "none" THEN server[l]
    ELSE IF dialer[l].pc = "done" THEN NoServer
    ELSE [NoServer EXCEPT !.pc = "closed"]

\* the connection of link l is gone for both ends, or for its reader
Gone(n, l) ==
    \/ DialerAfterExit(n, l).pc = "free" /\ dialer[l].pc # "free"
    \/ ServerAfterExit(n, l) # server[l]

\* serveIncoming lines 173-174 on the nil connection: dec.Decode calls Read
\* on a nil net.Conn, a nil pointer dereference; the panic is not
\* recovered and ends the process
NilServePanic(n) ==
    /\ listener[n] = "nilconn"
    /\ listener' = [listener EXCEPT ![n] = "down"]
    /\ scanner' = [scanner EXCEPT ![n] = IdleScanner]
    /\ channels' = [channels EXCEPT ![n] = [a \in Addr |-> NoChan]]
    /\ peersMu' = [peersMu EXCEPT ![n] = FALSE]
    /\ seenIds' = [seenIds EXCEPT ![n] = {}]
    /\ seenMu' = [seenMu EXCEPT ![n] = FALSE]
    /\ dialer' = [l \in Link |->
                    IF server[l].pc # "none" /\ ServerAfterExit(n, l).pc = "none"
                       THEN FreeDialer ELSE DialerAfterExit(n, l)]
    /\ server' = [l \in Link |-> ServerAfterExit(n, l)]
    /\ wire' = [l \in Link |-> IF Gone(n, l) THEN <<>> ELSE wire[l]]
    /\ stamps' = [l \in Link |-> IF Gone(n, l) THEN <<>> ELSE stamps[l]]
    /\ written' = [l \in Link |-> IF dialer'[l].pc = "free" THEN 0 ELSE written[l]]
    /\ got' = [l \in Link |-> IF dialer'[l].pc = "free" THEN <<>> ELSE got[l]]
    /\ UNCHANGED <<clock, cmds, faults, bcasts, shown, retFalse, retTrue,
                   redials, decoded, failed>>

\* dial lines 213-217: net.Dial to a node whose process has ended fails
DialRefused(l) ==
    /\ dialer[l].pc = "dialing"
    /\ ~Up(At(l))
    /\ dialer' = [dialer EXCEPT ![l].pc = "failed"]
    /\ UNCHANGED <<listener, channels, peersMu, seenIds, seenMu, scanner, wire,
                   server, clock, cmds, faults, hist>>

\* ---------------------------------------------------------- specification
Next ==
    \/ \E n \in Node : Submit(n)
    \/ \E n \in Node, a \in Addr : DialCmd(n, a)
    \/ \E n \in Node : ScanList(n)
    \/ \E n \in Node, c \in Chan : ScanSend(n, c)
    \/ \E l \in Link : DialSelf(l)
    \/ \E l \in Link : AddEnter(l)
    \/ \E l \in Link : AddLeave(l)
    \/ \E l \in Link : DialOK(l)
    \/ \E l \in Link : DialFail(l)
    \/ \E l \in Link : EncodeOK(l)
    \/ \E l \in Link : EncodeFail(l)
    \/ \E l \in Link : Remove(l)
    \/ \E l \in Link : \E k \in 1..Len(wire[l]) : Decode(l, k)
    \/ \E l \in Link : DecodeErr(l)
    \/ \E l \in Link : SeenEnter(l)
    \/ \E l \in Link : SeenLeave(l)
    \/ \E l \in Link : Display(l)
    \/ \E l \in Link : ServeList(l)
    \/ \E l \in Link, c \in Chan : ServeSend(l, c)
    \/ \E l \in Link : ServeDial(l)

Spec == Init /\ [][Next]_vars

\* The accept loop and the connections it hands out, with the failure of
\* Accept and without message traffic: nodes dial one another, connections
\* are made, refused and closed, and Accept may fail.
NextAccept ==
    \/ \E n \in Node : AcceptErr(n)
    \/ \E n \in Node : NilServePanic(n)
    \/ \E l \in Link : DialRefused(l)
    \/ \E n \in Node, a \in Addr : DialCmd(n, a)
    \/ \E l \in Link : DialSelf(l)
    \/ \E l \in Link : AddEnter(l)
    \/ \E l \in Link : AddLeave(l)
    \/ \E l \in Link : DialOK(l)
    \/ \E l \in Link : DialFail(l)
    \/ \E l \in Link : Remove(l)
    \/ \E l \in Link : DecodeErr(l)

SpecAccept == Init /\ [][NextAccept]_vars

\* A fixed peer graph: every node has dialled at most one peer with /dial,
\* the connections are made and served, nothing else has happened yet.
\* Rings and mutual pairs are among the graphs.
Graph == {g \in [Node -> Addr \cup {NoAddr}] : \A n \in Node : g[n] # LocalAddr(n)}

Dialled(g, l) == l[2] = 1 /\ g[l[1]] # NoAddr

InitGraph ==
    \E g \in Graph :
        /\ channels = [n \in Node |-> [a \in Addr |->
                          IF g[n] = a THEN 1 ELSE NoChan]]
        /\ dialer = [l \in Link |->
                        IF Dialled(g, l)
                           THEN [pc |-> "recv", addr |-> g[l[1]], ok |-> FALSE,
                                 s |-> NoMsg, by |-> "cmd"]
                           ELSE FreeDialer]
        /\ server = [l \in Link |->
                        IF Dialled(g, l) THEN [NoServer EXCEPT !.pc = "decode"]
                                         ELSE NoServer]
        /\ cmds = Cardinality({n \in Node : g[n] # NoAddr})
        /\ peersMu = [n \in Node |-> FALSE]
        /\ seenIds = [n \in Node |-> {}]
        /\ seenMu = [n \in Node |-> FALSE]
        /\ scanner = [n \in Node |-> IdleScanner]
        /\ wire = [l \in Link |-> <<>>]
        /\ clock = 0
        /\ faults = 0
        /\ listener = [n \in Node |-> "accepting"]
        /\ bcasts = [n \in Node |-> [i \in Id |-> 0]]
        /\ shown = [n \in Node |-> [i \in Id |-> 0]]
        /\ retFalse = [n \in Node |-> [i \in Id |-> 0]]
        /\ retTrue = [n \in Node |-> [i \in Id |-> 0]]
        /\ written = [l \in Link |-> 0]
        /\ redials = [n \in Node |-> {}]
        /\ decoded = [n \in Node |-> {}]
        /\ stamps = [l \in Link |-> <<>>]
        /\ got = [l \in Link |-> <<>>]
        /\ failed = {}

\* the steps the goroutines and the connections take by themselves, without
\* failures
FloodStep ==
    \/ \E n \in Node : ScanList(n)
    \/ \E n \in Node, c \in Chan : ScanSend(n, c)
    \/ \E l \in Link : DialSelf(l)
    \/ \E l \in Link : AddEnter(l)
    \/ \E l \in Link : AddLeave(l)
    \/ \E l \in Link : DialOK(l)
    \/ \E l \in Link : EncodeOK(l)
    \/ \E l \in Link : \E k \in 1..Len(wire[l]) : Decode(l, k)
    \/ \E l \in Link : SeenEnter(l)
    \/ \E l \in Link : SeenLeave(l)
    \/ \E l \in Link : Display(l)
    \/ \E l \in Link : ServeList(l)
    \/ \E l \in Link, c \in Chan : ServeSend(l, c)
    \/ \E l \in Link : ServeDial(l)

NextFlood ==
    \/ \E n \in Node : Submit(n)
    \/ FloodStep

\* Fair scheduling: as long as some goroutine can take a step, or a
\* connection can deliver, one of them does.  Typing a line is not forced.
FairSpec == InitGraph /\ [][NextFlood]_vars /\ WF_vars(FloodStep)

\* ------------------------------------------------------------------ claims
\* a dial goroutine between its successful Add and its Remove
Owning == {"dialing", "recv", "encode", "failed", "closed"}

\* a serveIncoming goroutine that holds a decoded message not yet passed
\* through SeenId and the print
Deciding == {"seen", "seen_cs", "print"}

\* a serveIncoming goroutine that found its message new
TreatedAsNew == {"print", "list", "send", "godial"}

\* C1: no amplification: every node, the originator included, calls
\* broadcast at most once for a message id.
C1_NoAmplification ==
    \A n \in Node, i \in Id : bcasts[n][i] <= 1

\* C2: dedup idempotence: per node and id exactly one SeenId call returns
\* false, it comes before every call that returns true, and an id that was
\* recorded stays recorded.
C2_DedupIdempotent ==
    \A n \in Node, i \in Id :
        /\ retFalse[n][i] <= 1
        /\ retTrue[n][i] > 0 => retFalse[n][i] = 1
        /\ retFalse[n][i] = 1 => i \in seenIds[n]

\* two connections of one node are inside SeenId for the same id at once:
\* one holds the lock, the other waits for it
C2_Witness ==
    \E l1, l2 \in Link :
        /\ l1 # l2
        /\ At(l1) = At(l2)
        /\ server[l1].pc = "seen_cs"
        /\ server[l2].pc = "seen"
        /\ server[l1].whisper.ID = server[l2].whisper.ID

\* C3: at most one owner: an Add that returns while the registry has an
\* entry for its address returns nil and leaves the registry as it is; an
\* Add that returns while there is none inserts its own channel.  So of
\* several concurrent Add(addr) exactly one gets the handle.
C3_AddOnce ==
    [][\A l \in Link :
          (dialer[l].pc = "add_cs" /\ dialer'[l].pc # "add_cs") =>
              IF PeersHas(l[1], dialer[l].addr)
                 THEN channels' = channels /\ dialer'[l].pc = "free"
                 ELSE /\ channels' = PeersInsert(l[1], dialer[l].addr, l[2])
                      /\ dialer'[l].pc = "dialing"]_vars

\* two dial goroutines of one node call Add for the same absent address at
\* once: one is inside Add and will insert, the other waits for the lock
C3_Witness ==
    \E l1, l2 \in Link :
        /\ l1[1] = l2[1]
        /\ l1 # l2
        /\ dialer[l1].addr = dialer[l2].addr
        /\ dialer[l1].pc = "add_cs" /\ ~dialer[l1].ok
        /\ dialer[l2].pc = "start"

\* C4: a node never treats a message it originated as new when the message
\* comes back on a connection: no print, no re-broadcast.
C4_NoEchoAtOrigin ==
    \A l \in Link :
        server[l].pc \in TreatedAsNew => server[l].whisper.Addr # LocalAddr(At(l))

\* C5: a node prints a message id at most once; a node that is not the
\* originator and has decoded the message has printed it exactly once, or
\* holds it in a serveIncoming that has not reached the print yet.
C5_DisplayedOnce ==
    \A n \in Node :
        /\ \A i \in Id : shown[n][i] <= 1
        /\ \A m \in decoded[n] :
              m.Addr # LocalAddr(n) =>
                  \/ shown[n][m.ID] = 1
                  \/ \E l \in Link : /\ At(l) = n
                                     /\ server[l].pc \in Deciding
                                     /\ server[l].whisper = m

\* a node that is not the originator has printed the message and has
\* discarded a further copy of it
C5_Witness ==
    \E n \in Node : \E m \in decoded[n] :
        /\ m.Addr # LocalAddr(n)
        /\ shown[n][m.ID] = 1
        /\ retTrue[n][m.ID] >= 1

\* C6: non-blocking fan-out: a broadcast that is in its loop can take the
\* step for every channel of its snapshot, whatever the state of the dial
\* goroutine behind the channel.
C6_NonBlocking ==
    /\ \A n \in Node : \A c \in scanner[n].todo : ENABLED ScanSend(n, c)
    /\ \A l \in Link : \A c \in server[l].todo : ENABLED ServeSend(l, c)

\* a broadcast is in its loop and no dial goroutine of its snapshot is
\* receiving
C6_Witness ==
    \E n \in Node :
        /\ scanner[n].todo # {}
        /\ \A c \in scanner[n].todo : ~Receiving(<<n, c>>)

\* C7: self-dial suppression: the registry of a node has no entry for the
\* node's own address, and a dial goroutine for the own address never gets
\* past the guard.
C7_NoSelfEntry ==
    \A n \in Node :
        /\ ~PeersHas(n, LocalAddr(n))
        /\ \A c \in Chan :
              dialer[<<n, c>>].addr = LocalAddr(n) => dialer[<<n, c>>].pc = "start"

\* a node has returned at the guard both for a /dial of its own address and
\* for the re-dial after its own message came back
C7_Witness ==
    \E n \in Node : redials[n] = {"cmd", "msg"}

\* C8: exclusive dial ownership: the registry entry of the address of a dial
\* goroutine that is between its Add and its Remove is that goroutine's
\* channel; so there is one such goroutine per address, and the entry it
\* removes is its own.
C8_ExclusiveOwner ==
    \A l \in Link :
        dialer[l].pc \in Owning => channels[l[1]][dialer[l].addr] = l[2]

\* while one dial goroutine owns the address, another one for the same
\* address is inside Add and will get nil
C8_Witness ==
    \E l1, l2 \in Link :
        /\ l1[1] = l2[1]
        /\ dialer[l1].addr = dialer[l2].addr
        /\ dialer[l1].pc \in Owning
        /\ dialer[l2].pc = "add_cs" /\ dialer[l2].ok

\* C9 as claimed: whenever the connection of a dial goroutine has failed or
\* has been closed by either end, the registry does not hold its entry.
C9_NoStaleEntry ==
    \A l \in Link :
        (dialer[l].pc \in {"failed", "closed", "done"} \/ RemoteClosed(l)) =>
            channels[l[1]][dialer[l].addr] # l[2]

\* C9 as amended: every registry entry is the channel of a dial goroutine
\* that has not returned yet; once the goroutine has returned, its entry is
\* gone.
C9_EntryHasLiveDialer ==
    \A n \in Node, a \in Addr :
        PeersHas(n, a) =>
            /\ dialer[<<n, channels[n][a]>>].addr = a
            /\ dialer[<<n, channels[n][a]>>].pc \in Owning

\* the remote end has closed the connection and the dial goroutine, blocked
\* waiting for a message, still holds its entry
C9_Witness ==
    \E l \in Link :
        /\ RemoteClosed(l)
        /\ Receiving(l)
        /\ channels[l[1]][dialer[l].addr] = l[2]

\* C10: dial failure: a dial goroutine whose net.Dial failed has written
\* nothing, and its only step is the return that removes its entry: no
\* retry.
C10_DialFailure ==
    [][\A l \in Link :
          dialer[l].pc = "failed" =>
              /\ written[l] = 0 /\ wire[l] = <<>> /\ server[l].pc = "none"
              /\ \/ dialer'[l] = dialer[l]
                 \/ /\ dialer'[l].pc = "free"
                    /\ channels'[l[1]][dialer[l].addr] = NoChan]_vars

\* after a failed dial of an address a later dial of the same address owns
\* the entry
C10_Witness ==
    \E l \in Link :
        /\ <<l[1], dialer[l].addr>> \in failed
        /\ dialer[l].pc \in Owning
        /\ channels[l[1]][dialer[l].addr] = l[2]

\* C11: duplicate discard: the SeenId call of a serveIncoming that found
\* the id recorded ends with the goroutine back at its Decode on the same
\* connection, and with nothing printed, no broadcast, no dial goroutine
\* started and the registry as it was.
C11_DuplicateDiscard ==
    [][\A l \in Link :
          (server[l].pc = "seen_cs" /\ server[l].ok /\ server'[l].pc # "seen_cs") =>
              /\ server'[l].pc = "decode"
              /\ shown' = shown
              /\ bcasts' = bcasts
              /\ dialer' = dialer
              /\ channels' = channels
              /\ wire' = wire]_vars

\* a serveIncoming is inside SeenId for a message that its node has already
\* printed, and has read that the id is recorded
C11_Witness ==
    \E l \in Link :
        /\ server[l].pc = "seen_cs"
        /\ server[l].ok
        /\ shown[At(l)][server[l].whisper.ID] = 1

\* the messages of a link's connection that were decoded, followed by those
\* still unread, each as its position in the order of the writes
Stream(l) == got[l] \o stamps[l]

\* C12: serveIncoming consumes every message: while the connection is
\* served and no decode error has occurred, the messages decoded and the
\* messages still unread are together exactly the messages the dial
\* goroutine wrote, each once and none skipped.
C12_ConsumesEvery ==
    \A l \in Link :
        server[l].pc \notin {"none", "closed"} =>
            /\ Len(Stream(l)) = written[l]
            /\ \A i \in 1..Len(Stream(l)) : Stream(l)[i] = i

\* C13: per-link ordering: the messages decoded from a link's connection,
\* and those still unread on it, are in the order in which the dial
\* goroutine took them from its channel; no two are swapped.
C13_LinkOrder ==
    \A l \in Link : \A i, j \in 1..Len(Stream(l)) :
        i < j => Stream(l)[i] < Stream(l)[j]

\* serveIncoming has decoded one message of a connection and a later one is
\* unread on it, or it has decoded two
C13_Witness ==
    \E l \in Link : Len(got[l]) >= 1 /\ Len(Stream(l)) >= 2

\* one iteration of a broadcast loop, seen from outside: the goroutine
\* whose record goes from b to b2 at node n has tried channel c
Tried(n, b, b2, c) ==
    /\ b.pc = "send"
    /\ c \in b.todo
    /\ b2 # b
    /\ \/ b2.pc = "send" /\ b2.todo = b.todo \ {c}
       \/ b2.pc # "send" /\ b2.todo = {} /\ b.todo = {c}

\* C14: drop isolation: every step of a broadcast loop tries exactly one
\* channel of the snapshot not tried before, and the loop ends only with
\* the last of them.  The dial goroutine that is receiving gets the
\* message, whatever happened to the earlier attempts; the one that is not
\* is left as it is, and its channel is not tried again.
C14_DropIsolation ==
    [][/\ \A n \in Node :
             scanner'[n] # scanner[n] /\ scanner[n].pc = "send" =>
                 \E c \in Chan :
                     /\ Tried(n, scanner[n], scanner'[n], c)
                     /\ dialer'[<<n, c>>] =
                          IF Receiving(<<n, c>>)
                             THEN [dialer[<<n, c>>] EXCEPT !.pc = "encode",
                                                  !.s = scanner[n].whisper]
                             ELSE dialer[<<n, c>>]
       /\ \A l \in Link :
             server'[l] # server[l] /\ server[l].pc = "send" =>
                 \E c \in Chan :
                     /\ Tried(At(l), server[l], server'[l], c)
                     /\ dialer'[<<At(l), c>>] =
                          IF Receiving(<<At(l), c>>)
                             THEN [dialer[<<At(l), c>>] EXCEPT !.pc = "encode",
                                                  !.s = server[l].whisper]
                             ELSE dialer[<<At(l), c>>]]_vars

\* a broadcast has had a send dropped and comes to a channel whose dial
\* goroutine is receiving
C14_Witness ==
    \E n \in Node : \E c \in scanner[n].todo :
        /\ scanner[n].pc = "send"
        /\ scanner[n].dropped # {}
        /\ Receiving(<<n, c>>)

\* C15: new-message pipeline: a serveIncoming whose SeenId call returned
\* false prints the message, then calls broadcast, whose snapshot is the
\* registry at that moment, then starts a dial goroutine for the Addr of
\* the message, then decodes again.  The Add of a dial goroutine started
\* that way returns with an entry for the address in the registry.
C15_NewPipeline ==
    [][/\ \A l \in Link :
          LET b == server[l]  b2 == server'[l]  n == At(l) IN
          /\ (b.pc = "seen_cs" /\ ~b.ok /\ b2 # b) => b2.pc = "print"
          /\ (b.pc = "print" /\ b2 # b) =>
                /\ b2.pc = "list" /\ b2.whisper = b.whisper
                /\ shown' = Bump(shown, n, b.whisper.ID)
                /\ bcasts' = Bump(bcasts, n, b.whisper.ID)
          /\ (b.pc = "list" /\ b2 # b) =>
                /\ b2.whisper = b.whisper
                /\ IF PeersList(n) = {}
                      THEN b2.pc = "godial"
                      ELSE b2.pc = "send" /\ b2.todo = PeersList(n)
          /\ (b.pc = "send" /\ b2.pc # "send") =>
                b2.pc = "godial" /\ b2.whisper = b.whisper
          /\ (b.pc = "godial" /\ b2 # b) =>
                /\ b2.pc = "decode"
                /\ \E c \in Chan :
                      /\ dialer[<<n, c>>].pc = "free"
                      /\ dialer'[<<n, c>>].pc = "start"
                      /\ dialer'[<<n, c>>].addr = b.whisper.Addr
                      /\ dialer'[<<n, c>>].by = "msg"
       /\ \A l \in Link :
          LET d == dialer[l]  d2 == dialer'[l] IN
          /\ (d.pc = "start" /\ d.by = "msg" /\ d2 # d) =>
                IF d.addr = LocalAddr(l[1]) THEN d2.pc = "free"
                                            ELSE d2.pc = "add_cs"
          /\ (d.pc = "add_cs" /\ d.by = "msg" /\ d2 # d) =>
                channels'[l[1]][d.addr] # NoChan]_vars

\* a serveIncoming has printed and broadcast a message that a peer other
\* than its origin relayed, and is about to start the dial goroutine for
\* the origin, for which its node has no entry
C15_Witness ==
    \E l \in Link :
        /\ server[l].pc = "godial"
        /\ server[l].whisper.Addr # l[1]
        /\ server[l].whisper.Addr # LocalAddr(At(l))
        /\ ~PeersHas(At(l), server[l].whisper.Addr)

\* C16: registry entries have two causes only: the entry of a node for an
\* address belongs to a dial goroutine that a /dial command of that
\* address started, or to one that serveIncoming started after the node
\* found new a message whose Addr is that address.
C16_EntryCauses ==
    \A n \in Node, a \in Addr :
        PeersHas(n, a) =>
            LET d == dialer[<<n, channels[n][a]>>] IN
            \/ d.by = "cmd" /\ d.addr = a
            \/ /\ d.by = "msg" /\ d.addr = a
               /\ \E m \in decoded[n] : m.Addr = a /\ retFalse[n][m.ID] = 1

\* a node that was dialled has, after the first message of the dialling
\* node, an entry for it that no /dial command made
C16_Witness ==
    \E l, l2 \in Link :
        /\ dialer[l].by = "msg"
        /\ dialer[l].pc \in Owning
        /\ channels[l[1]][dialer[l].addr] = l[2]
        /\ l2[1] = dialer[l].addr
        /\ At(l2) = l[1]
        /\ server[l2].pc = "decode"

\* C17: decode-error isolation: the step by which a serveIncoming leaves
\* its loop on a decode error changes nothing of the registries, the dedup
\* caches, the scanners, the other links' goroutines and connections, nor
\* the dial goroutine of its own link if that is still running.
C17_DecodeErrIsolated ==
    [][\A l \in Link :
          (server[l].pc = "decode" /\ server'[l].pc \in {"closed", "none"}) =>
              /\ channels' = channels
              /\ seenIds' = seenIds
              /\ scanner' = scanner
              /\ dialer[l].pc # "done" => dialer'[l] = dialer[l]
              /\ \A o \in Link \ {l} :
                    /\ dialer'[o] = dialer[o]
                    /\ server'[o] = server[o]
                    /\ wire'[o] = wire[o]]_vars

\* one connection of a node has ended on a decode error while another
\* connection of the same node is still served
C17_Witness ==
    \E l, o \in Link :
        /\ l # o
        /\ At(l) = At(o)
        /\ server[l].pc = "closed"
        /\ server[o].pc \notin {"none", "closed"}

\* C20: hand-off only to a connected, idle dial goroutine: a dial goroutine
\* holds a message exactly while it is encoding it; it gets one only while
\* it is blocked receiving, which is after net.Dial returned the
\* connection; and its next step with the message is the write, which
\* succeeds or fails.
C20_HandOff ==
    [][\A l \in Link :
          LET d == dialer[l]  d2 == dialer'[l] IN
          /\ (d.s # NoMsg) <=> (d.pc = "encode")
          /\ (d2.s # NoMsg /\ d2.s # d.s) =>
                /\ d.pc = "recv"
                /\ server[l].pc # "none"
                /\ d2.pc = "encode"
          /\ (d.pc = "encode" /\ d2 # d) =>
                \/ d2.pc = "recv" /\ written'[l] = written[l] + 1
                \/ d2.pc = "closed"]_vars

\* a broadcast has dropped its message for a dial goroutine that is still
\* connecting or is writing an earlier message
C20_Witness ==
    \E n \in Node : \E c \in scanner[n].dropped :
        /\ dialer[<<n, c>>].pc \in {"dialing", "encode"}
        /\ bcasts[n][scanner[n].whisper.ID] >= 1

\* C18: an accept failure is fatal: once Accept has returned an error the
\* process is down, and there is no state in which it runs on with a
\* serveIncoming started for the failed accept.
C18_AcceptFatal ==
    \A n \in Node : listener[n] \in {"accepting", "down"}

\* no broadcast is in progress or about to be called, and no message is in
\* a dial goroutine's hands, on a connection or in a serveIncoming
Quiet ==
    /\ \A n \in Node : scanner[n].pc = "scan"
    /\ \A l \in Link :
          /\ wire[l] = <<>>
          /\ dialer[l].pc # "encode"
          /\ server[l].pc \in {"none", "decode", "closed"}

\* C19: flooding quiesces: on a fixed peer graph, cycles included, and
\* under fair scheduling the network comes to a state, and stays there, in
\* which no broadcast runs or will be called and no message is in flight.
C19_Quiesces == <>[]Quiet

\* every line has been typed, the message has come back to its originator
\* around a cycle and was flooded once more, a node has discarded the
\* second copy, and the network is quiet
C19_Witness ==
    /\ Quiet
    /\ clock = MaxMsgs
    /\ \E n, o \in Node, i \in Id : bcasts[n][i] = 2 /\ retTrue[o][i] >= 1

====
